---- MODULE Spec2Model ----
(***************************************************************************)
(* Gov PM Translator (src/src/App.tsx): the keyword classifier             *)
(* analyzeTextStandard, the remote classifier callGeminiAPI and the        *)
(* session state machine of the App component.                             *)
(*                                                                         *)
(* Text is a sequence of characters.  A character outside ASCII is written *)
(* as its code point, "U6012" for U+6012, because module text is ASCII.    *)
(* A string literal of the source that is only carried around (a label, a  *)
(* description) is written as one string of such code points.              *)
(***************************************************************************)
EXTENDS Integers, Sequences, FiniteSets, TLC

VARIABLES
    \* exercising analyzeTextStandard
    inputText,        \* the text given to analyzeTextStandard
    variantText,      \* a text that differs from inputText in case and outer whitespace only
    category,         \* <<>> or <<analyzeTextStandard(inputText)>>
    variantCategory,  \* <<>> or <<analyzeTextStandard(variantText)>>
    \* exercising callGeminiAPI
    apiText,          \* the text given to callGeminiAPI
    apiReply,         \* what fetch and response.json() do for that call
    apiOutcome,       \* <<>> or <<the value callGeminiAPI's promise settles with>>
    \* the App component
    step, mode, apiKey, inputs, currentInput, aiResults, debugLogs, isProcessing, showDebug,
    sessionStorage,   \* the value stored under 'gemini_api_key', <<>> when there is none
    batch,            \* the inputs and the key processTranslation closed over
    requests,         \* one entry per promise of promises
    settleOrder,      \* the indices of promises in the order they settled
    fetchCount        \* how many times fetch was called for each index of the batch

stdVars == <<inputText, variantText, category, variantCategory>>
apiVars == <<apiText, apiReply, apiOutcome>>
appVars == <<step, mode, apiKey, inputs, currentInput, aiResults, debugLogs, isProcessing,
             showDebug, sessionStorage, batch, requests, settleOrder, fetchCount>>
vars == <<stdVars, apiVars, appVars>>

----------------------------------------------------------------------------
(* Bounds of the model *)

MaxLen == 3        \* longest enumerated input text of analyzeTextStandard
MaxPad == 1        \* whitespace characters added around variantText
MaxToks == 3       \* longest enumerated reply text, in pieces
MaxInputs == 2     \* most inputs a session queues

----------------------------------------------------------------------------
(* JavaScript values that the code reads as a whole: a kind and, for a     *)
(* string, its characters.                                                 *)

Undefined == [kind |-> "undefined", s |-> ""]
Str(s)    == [kind |-> "string", s |-> s]
True      == [kind |-> "boolean", s |-> "true"]

----------------------------------------------------------------------------
(* String.prototype.trim, toLowerCase and includes *)

\* WhiteSpace and LineTerminator of ECMAScript that trim removes
WhiteSpace == {" ", "\t", "\n", "\r", "U000B", "U000C", "U00A0", "U3000", "UFEFF",
               "U2028", "U2029"}

RECURSIVE trimStart(_)
trimStart(s) ==
    IF s # <<>> /\ Head(s) \in WhiteSpace THEN trimStart(Tail(s)) ELSE s

RECURSIVE trimEnd(_)
trimEnd(s) ==
    IF s # <<>> /\ s[Len(s)] \in WhiteSpace THEN trimEnd(SubSeq(s, 1, Len(s) - 1)) ELSE s

\* a trim that also drops the first character after leading whitespace
trimOffByOne(s) ==
    LET t == trimStart(trimEnd(s)) IN
    IF s # <<>> /\ Head(s) \in WhiteSpace /\ t # <<>> THEN Tail(t) ELSE t

trim(s) == trimEnd(trimStart(s))

UpperCase == << "A", "B", "C", "X", "Y", "Z", "UFF21" >>
LowerCase == << "a", "b", "c", "x", "y", "z", "UFF41" >>

\* the cased characters of the model; every other character has no case
toLowerCaseChar(c) ==
    IF \E i \in 1..Len(UpperCase) : UpperCase[i] = c
    THEN LowerCase[CHOOSE i \in 1..Len(UpperCase) : UpperCase[i] = c]
    ELSE c

toUpperCaseChar(c) ==
    IF \E i \in 1..Len(LowerCase) : LowerCase[i] = c
    THEN UpperCase[CHOOSE i \in 1..Len(LowerCase) : LowerCase[i] = c]
    ELSE c

toLowerCase(s) == [i \in 1..Len(s) |-> toLowerCaseChar(s[i])]

\* k occurs in s at some offset
includes(s, k) ==
    \E i \in 0..(Len(s) - Len(k)) : SubSeq(s, i + 1, i + Len(k)) = k

----------------------------------------------------------------------------
(* analyzeTextStandard *)

dictionary ==
  <<
    [ keys  |-> << <<"U6012">>,
                 <<"U30AF", "U30EC", "U30FC", "U30E0">>,
                 <<"U82E6", "U60C5">>,
                 <<"U8B1D">>,
                 <<"U8A6B">>,
                 <<"U30C8", "U30E9", "U30D6", "U30EB">>,
                 <<"U4E8B", "U6545">>,
                 <<"U7DCA", "U6025">>>>,
      label |-> "U30AFU30E9U30A4U30B7U30B9U30DEU30CDU30B8U30E1U30F3U30C8",
      text  |-> "U4E0DU6E2CU306EU4E8BU614BU306BU304AU3051U308BU8FC5U901FU306AU8AB2U984CU89E3U6C7AU3068U30EAU30B9U30AFU6975U5C0FU5316",
      icon  |-> "AlertTriangle", color |-> "text-red-600", bg |-> "bg-red-50" ],
    [ keys  |-> << <<"U8ABF", "U6574">>,
                 <<"U5408", "U610F">>,
                 <<"U76F8", "U8AC7">>,
                 <<"U4F9D", "U983C">>,
                 <<"U96FB", "U8A71">>,
                 <<"U30E1", "U30FC", "U30EB">>,
                 <<"U4F1A", "U8B70">>,
                 <<"U8AAC", "U660E">>,
                 <<"U7A93", "U53E3">>,
                 <<"U5BFE", "U5FDC">>>>,
      label |-> "U30B9U30C6U30FCU30AFU30DBU30EBU30C0U30FCU30DEU30CDU30B8U30E1U30F3U30C8",
      text  |-> "U591AU69D8U306AU95A2U4FC2U8005U3068U306EU5229U5BB3U8ABFU6574U304AU3088U3073U5408U610FU5F62U6210U306EU30EAU30FCU30C9",
      icon  |-> "Users", color |-> "text-blue-600", bg |-> "bg-blue-50" ],
    [ keys  |-> << <<"U4F01", "U753B">>,
                 <<"U6848">>,
                 <<"U7ACB", "U6848">>,
                 <<"U4ED5", "U69D8">>,
                 <<"U8981", "U4EF6">>,
                 <<"U691C", "U8A0E">>,
                 <<"U6C7A">>,
                 <<"U30EB", "U30FC", "U30EB">>,
                 <<"U65B9", "U91DD">>>>,
      label |-> "U30D7U30EDU30B8U30A7U30AFU30C8U8A08U753BU30FBU69CBU60F3",
      text  |-> "U5B9FU73FEU53EFU80FDU6027U3092U8003U616EU3057U305FU696DU52D9U8981U4EF6U5B9AU7FA9U304AU3088U3073U5B9FU88C5U8A08U753BU306EU7B56U5B9A",
      icon  |-> "FileText", color |-> "text-purple-600", bg |-> "bg-purple-50" ],
    [ keys  |-> << <<"U30C1", "U30A7", "U30C3", "U30AF">>,
                 <<"U78BA", "U8A8D">>,
                 <<"U30DF", "U30B9">>,
                 <<"U4FEE", "U6B63">>,
                 <<"U6821", "U6B63">>,
                 <<"U30C6", "U30B9", "U30C8">>,
                 <<"U691C", "U7B97">>,
                 <<"U76E3", "U67FB">>>>,
      label |-> "U54C1U8CEAU7BA1U7406 (QA/QC)",
      text  |-> "U6210U679CU7269U306EU54C1U8CEAU57FAU6E96U7B56U5B9AU304AU3088U3073U53B3U683CU306AU691CU8A3CU30D7U30EDU30BBU30B9U306EU9042U884C",
      icon  |-> "ShieldCheck", color |-> "text-emerald-600", bg |-> "bg-emerald-50" ],
    [ keys  |-> << <<"U65E5", "U7A0B">>,
                 <<"U30B9", "U30B1", "U30B8", "U30E5", "U30FC", "U30EB">>,
                 <<"U7D0D", "U671F">>,
                 <<"U671F", "U9650">>,
                 <<"U9032", "U884C">>,
                 <<"U7BA1", "U7406">>,
                 <<"U6BB5", "U53D6", "U308A">>,
                 <<"U5DE5", "U7A0B">>>>,
      label |-> "U5DE5U7A0BU7BA1U7406 (Time Mgmt)",
      text  |-> "WBSU306BU57FAU3065U304FU53B3U5BC6U306AU9032U6357U7BA1U7406U3068U30EAU30BDU30FCU30B9U306EU6700U9069U914DU5206",
      icon  |-> "Layers", color |-> "text-orange-600", bg |-> "bg-orange-50" ],
    [ keys  |-> << <<"U30C7", "U30FC", "U30BF">>,
                 <<"U96C6", "U8A08">>,
                 <<"U5165", "U529B">>,
                 <<"U30A8", "U30AF", "U30BB", "U30EB">>,
                 <<"U6570", "U5B57">>,
                 <<"U5206", "U6790">>,
                 <<"U8A08", "U7B97">>,
                 <<"U30B7", "U30B9", "U30C6", "U30E0">>>>,
      label |-> "U30C7U30FCU30BFU30C9U30EAU30D6U30F3U30FBU30AAU30DAU30ECU30FCU30B7U30E7U30F3",
      text  |-> "U5B9AU91CFU7684U30C7U30FCU30BFU306BU57FAU3065U304FU696DU52D9U30D7U30EDU30BBU30B9U306EU53EFU8996U5316U3068U52B9U7387U5316",
      icon  |-> "Zap", color |-> "text-yellow-600", bg |-> "bg-yellow-50" ]
  >>

fallbackCategory ==
    [ label |-> "U30B8U30A7U30CDU30E9U30EBU30FBU30A2U30C9U30DFU30CBU30B9U30C8U30ECU30FCU30B7U30E7U30F3",
      text  |-> "U7D44U7E54U904BU55B6U3092U5186U6ED1U5316U3059U308BU305FU3081U306EU5B9AU5E38U696DU52D9U306EU78BAU5B9FU306AU9042U884C",
      icon  |-> "Briefcase", color |-> "text-slate-500", bg |-> "bg-slate-50" ]

\* receiver and argument of includes exchanged: k.includes(text)
someKeyIncludesText(cat, text) ==
    \E j \in 1..Len(cat.keys) : includes(cat.keys[j], text)

\* cat.keys.some(k => text.includes(k))
someKeyIncluded(cat, text) ==
    \E j \in 1..Len(cat.keys) : includes(text, cat.keys[j])

\* the for loop over the dictionary from entry i on, and the return after it
RECURSIVE firstMatchFrom(_, _)
firstMatchFrom(text, i) ==
    IF i > Len(dictionary) THEN fallbackCategory
    ELSE IF someKeyIncluded(dictionary[i], text) THEN dictionary[i]
    ELSE firstMatchFrom(text, i + 1)

\* the loop keeps going after a match, so the last matching entry wins
RECURSIVE lastMatchFrom(_, _)
lastMatchFrom(text, i) ==
    IF i < 1 THEN fallbackCategory
    ELSE IF someKeyIncluded(dictionary[i], text) THEN dictionary[i]
    ELSE lastMatchFrom(text, i - 1)

analyzeTextLastMatch(inputText_) ==
    LET text == toLowerCase(trim(inputText_))
    IN  lastMatchFrom(text, Len(dictionary))

analyzeTextStandard(inputText_) ==
    LET text == toLowerCase(trim(inputText_))
    IN  firstMatchFrom(text, 1)

----------------------------------------------------------------------------
(* callGeminiAPI *)

GEMINI_MODEL == "gemini-2.5-flash-lite"

\* the template literal of lines 13-22, carried around as one value
SYSTEM_PROMPT == "You are an expert Project Manager. [...] Return ONLY a JSON object [...]"

\* the own properties of ICON_MAP
ICON_MAP == {"AlertTriangle", "Users", "FileText", "ShieldCheck", "Layers", "Zap",
             "Briefcase", "AlertCircle"}

\* ICON_MAP is an object literal, so a lookup that finds no own property goes
\* on to Object.prototype, whose properties are these
ObjectPrototype == {"constructor", "toString", "toLocaleString", "valueOf",
                    "hasOwnProperty", "isPrototypeOf", "propertyIsEnumerable",
                    "__proto__", "__defineGetter__", "__defineSetter__",
                    "__lookupGetter__", "__lookupSetter__"}

\* ToString of a property key
toPropertyKey(v) == IF v.kind = "undefined" THEN "undefined" ELSE v.s

\* ICON_MAP[parsed.iconKey] || Briefcase; every property of Object.prototype
\* is a function or an object, hence truthy
iconFor(iconKey) ==
    IF toPropertyKey(iconKey) \in ICON_MAP THEN toPropertyKey(iconKey)
    ELSE IF toPropertyKey(iconKey) \in ObjectPrototype
    THEN "Object.prototype." \o toPropertyKey(iconKey)
    ELSE "Briefcase"

\* ---- the reply of the service, as far as the code looks at it ----
\* content: the value at candidates[0].content.parts[0].text; a string is a
\* sequence of pieces, each a code fence (three backquotes), the word "json",
\* a whitespace character or a run of other text
Fence == "<fence>"
NoContent == [kind |-> "undefined", toks |-> <<>>]
StrContent(toks) == [kind |-> "string", toks |-> toks]
NumContent == [kind |-> "number", toks |-> <<>>]

\* data.error
NoError == [kind |-> "undefined", message |-> Undefined]
ErrorObject(m) == [kind |-> "object", message |-> m]

\* an optional property or array element is <<>> or <<value>>; an array is a
\* sequence
at0(optArr) == IF optArr = <<>> THEN <<>>
               ELSE IF optArr[1] = <<>> THEN <<>> ELSE <<optArr[1][1]>>

\* data.candidates?.[0]?.content?.parts?.[0]?.text
contentOf(data) ==
    LET cand == at0(data.candidates) IN
    IF cand = <<>> THEN NoContent
    ELSE IF cand[1].content = <<>> THEN NoContent
    ELSE LET part == at0(cand[1].content[1].parts) IN
         IF part = <<>> THEN NoContent ELSE part[1].text

\* content.replace(/<fence>json/g, ""): one pass from the left, no rescan
RECURSIVE removeFenceJson(_)
removeFenceJson(toks) ==
    IF toks = <<>> THEN <<>>
    ELSE IF Len(toks) >= 2 /\ toks[1] = Fence /\ toks[2] = "json"
    THEN removeFenceJson(SubSeq(toks, 3, Len(toks)))
    ELSE <<Head(toks)>> \o removeFenceJson(Tail(toks))

\* .replace(/<fence>/g, "")
removeFence(toks) == SelectSeq(toks, LAMBDA t : t # Fence)

RECURSIVE join(_)
join(toks) == IF toks = <<>> THEN "" ELSE Head(toks) \o join(Tail(toks))

cleanJsonOf(content) == join(trim(removeFence(removeFenceJson(content.toks))))

\* ---- JSON.parse on the texts of the model ----
JsonNull == [kind |-> "null", label |-> Undefined, text |-> Undefined, iconKey |-> Undefined]
JsonArray == [kind |-> "array", label |-> Undefined, text |-> Undefined, iconKey |-> Undefined]
JsonObject(l, t, k) == [kind |-> "object", label |-> l, text |-> t, iconKey |-> k]

IconKeyValues == {Str(k) : k \in ICON_MAP \cup ObjectPrototype \cup {"Nonexistent", ""}}
                 \cup {Undefined}

JsonValues ==
    {JsonNull, JsonArray}
    \cup {JsonObject(Str("X"), Str("Y"), k) : k \in IconKeyValues}
    \cup {JsonObject(Undefined, Undefined, Undefined),
          JsonObject(Str("X"), Undefined, Str("Users")),
          JsonObject(Undefined, Str("Y"), Str("Zap"))}

member(name, v) == IF v.kind = "undefined" THEN <<>>
                   ELSE <<"\"" \o name \o "\":\"" \o v.s \o "\"">>

RECURSIVE joinWith(_, _)
joinWith(parts, sep) ==
    IF parts = <<>> THEN ""
    ELSE IF Len(parts) = 1 THEN parts[1]
    ELSE parts[1] \o sep \o joinWith(Tail(parts), sep)

\* the JSON text of a value of the model
jsonText(v) ==
    CASE v.kind = "null"  -> "null"
      [] v.kind = "array" -> "[]"
      [] OTHER -> "{" \o joinWith(member("label", v.label) \o member("text", v.text)
                                   \o member("iconKey", v.iconKey), ",") \o "}"

\* JSON.parse: the value whose text this is, a SyntaxError for any other text
JSONparse(s) ==
    IF \E v \in JsonValues : jsonText(v) = s
    THEN [ok |-> TRUE, value |-> CHOOSE v \in JsonValues : jsonText(v) = s]
    ELSE [ok |-> FALSE, value |-> JsonNull]

\* JSON.stringify of a string without characters to escape
JSONstringify(s) == "\"" \o s \o "\""

\* ---- the body of the try block and the catch block ----
Throw(message) == [threw |-> TRUE, message |-> message, parsed |-> JsonNull, cleanJson |-> ""]
Return(parsed, cleanJson) ==
    [threw |-> FALSE, message |-> "", parsed |-> parsed, cleanJson |-> cleanJson]

isTruthy(v) == ~(v.kind = "undefined" \/ (v.kind = "string" /\ v.s = ""))

\* lines 96-97 for a content that is a non-empty string
parseContent(content) ==
    LET cleanJson == cleanJsonOf(content)
        parsed == JSONparse(cleanJson)
    IN  IF ~parsed.ok THEN Throw("Unexpected token in JSON")
        ELSE IF parsed.value.kind = "null"
        THEN Throw("Cannot read properties of null (reading 'label')")
        ELSE Return(parsed.value, cleanJson)

\* lines 91-97 for the value response.json() gave
readData(data) ==
    IF data.kind = "null" THEN Throw("Cannot read properties of null (reading 'error')")
    ELSE IF data.error.kind # "undefined"
    THEN Throw(IF isTruthy(data.error.message) THEN data.error.message.s ELSE "API Error")
    ELSE LET content == contentOf(data) IN
         IF content.kind = "undefined" \/ (content.kind = "string" /\ content.toks = <<>>)
         THEN Throw("No content generated")
         ELSE IF content.kind # "string" THEN Throw("content.replace is not a function")
         ELSE parseContent(content)

\* lines 78-97: fetch, response.json() and the rest; response.status and
\* response.ok are never read
tryBlock(reply) ==
    IF reply.fetch = "reject" THEN Throw(reply.message)
    ELSE IF reply.body = "unreadable" THEN Throw(reply.message)
    ELSE IF reply.body = "notjson" THEN Throw("Unexpected token < in JSON at position 0")
    ELSE readData(reply.data)

\* U+63A5 U+7D9A U+5931 U+6557 ": ", the prefix of the error description
ErrorPrefix == "U63A5U7D9AU5931U6557: "

successValue(text, t) ==
    [ result |-> [ label |-> t.parsed.label,
                   text  |-> t.parsed.text,
                   icon  |-> iconFor(t.parsed.iconKey),
                   color |-> "text-indigo-600",
                   bg    |-> "bg-indigo-50",
                   isError |-> Undefined ],
      log |-> [prompt |-> SYSTEM_PROMPT, input |-> text, response |-> t.cleanJson] ]

\* the catch block logs e.message itself, not JSON.stringify(e.message)
errorValueUnquoted(text, t) ==
    [ result |-> [ label |-> Str("API Error"),
                   text  |-> Str(ErrorPrefix \o t.message),
                   icon  |-> "XCircle",
                   color |-> "text-red-500",
                   bg    |-> "bg-red-50",
                   isError |-> True ],
      log |-> [prompt |-> SYSTEM_PROMPT, input |-> text, response |-> t.message] ]

errorValue(text, t) ==
    [ result |-> [ label |-> Str("API Error"),
                   text  |-> Str(ErrorPrefix \o t.message),
                   icon  |-> "XCircle",
                   color |-> "text-red-500",
                   bg    |-> "bg-red-50",
                   isError |-> True ],
      log |-> [prompt |-> SYSTEM_PROMPT, input |-> text,
               response |-> JSONstringify(t.message)] ]

\* the request fetch is called with
requestOf(text, key) ==
    [ url  |-> [model |-> GEMINI_MODEL, key |-> key],
      body |-> [system_instruction |-> SYSTEM_PROMPT, contents |-> text] ]

\* only fetch is inside the try block: a later failure rejects the promise
callGeminiAPINarrowTry(text, key, reply) ==
    LET t == tryBlock(reply) IN
    IF ~t.threw THEN [state |-> "fulfilled", value |-> successValue(text, t)]
    ELSE IF reply.fetch = "reject" THEN [state |-> "fulfilled", value |-> errorValue(text, t)]
    ELSE [state |-> "rejected", value |-> errorValue(text, t)]

\* the catch block throws the error on instead of returning a result
callGeminiAPIRethrow(text, key, reply) ==
    LET t == tryBlock(reply) IN
    IF t.threw THEN [state |-> "rejected", value |-> errorValue(text, t)]
    ELSE [state |-> "fulfilled", value |-> successValue(text, t)]

\* what the promise callGeminiAPI returns settles with
callGeminiAPI(text, key, reply) ==
    LET t == tryBlock(reply) IN
    IF t.threw THEN [state |-> "fulfilled", value |-> errorValue(text, t)]
    ELSE [state |-> "fulfilled", value |-> successValue(text, t)]

\* result.isError, undefined when the object has no such property
isErrorOf(r) == IF "isError" \in DOMAIN r THEN r.isError ELSE Undefined

----------------------------------------------------------------------------
(* Specification SpecStandard: analyzeTextStandard applied to a text and   *)
(* to a variant of it.                                                     *)

\* characters of the enumerated texts: U6012 is a key of entry 1, U5BFE U5FDC
\* one of entry 2, U6848 one of entry 3, U7BA1 U7406 one of entry 5
StdAlphabet == {"U6012", "U5BFE", "U5FDC", "U6848", "U7BA1", "U7406", "A", " "}

\* "クレーム対応", "進行管理", "xyz123" and texts that reach entries 4 and 6
ExClaim    == <<"U30AF", "U30EC", "U30FC", "U30E0", "U5BFE", "U5FDC">>
ExProgress == <<"U9032", "U884C", "U7BA1", "U7406">>
ExXyz      == <<"x", "y", "z", "1", "2", "3">>
ExMistake  == <<"U5165", "U529B", "U30DF", "U30B9">>
ExInput    == <<"X", "U5165", "U529B">>
ExampleTexts == {ExClaim, ExProgress, ExXyz, ExMistake, ExInput}

TextsUpTo(n) == UNION {[1..m -> StdAlphabet] : m \in 0..n}

PadChars == {" ", "U3000"}

InitApi ==
    /\ apiText = <<>>
    /\ apiReply = <<>>
    /\ apiOutcome = <<>>

InitApp ==
    /\ step = 0
    /\ mode = "standard"
    /\ apiKey = ""
    /\ inputs = <<>>
    /\ currentInput = <<>>
    /\ aiResults = <<>>
    /\ debugLogs = <<>>
    /\ isProcessing = FALSE
    /\ showDebug = FALSE
    /\ sessionStorage = <<>>
    /\ batch = <<>>
    /\ requests = <<>>
    /\ settleOrder = <<>>
    /\ fetchCount = <<>>

InitStandard ==
    /\ inputText \in TextsUpTo(MaxLen) \cup ExampleTexts
    /\ variantText = inputText
    /\ category = <<>>
    /\ variantCategory = <<>>
    /\ InitApi
    /\ InitApp

isCased(c) == toLowerCaseChar(c) # c \/ toUpperCaseChar(c) # c

swapCase(c) == IF toLowerCaseChar(c) # c THEN toLowerCaseChar(c) ELSE toUpperCaseChar(c)

\* the variant gets the other case at one position
ChangeCase ==
    /\ category = <<>>
    /\ \E i \in 1..Len(variantText) :
          /\ isCased(variantText[i])
          /\ variantText' = [variantText EXCEPT ![i] = swapCase(variantText[i])]
    /\ UNCHANGED <<inputText, category, variantCategory, apiVars, appVars>>

\* the variant gets a whitespace character in front
PadLeft ==
    /\ category = <<>>
    /\ Len(variantText) < Len(inputText) + MaxPad
    /\ \E w \in PadChars : variantText' = <<w>> \o variantText
    /\ UNCHANGED <<inputText, category, variantCategory, apiVars, appVars>>

\* the variant gets a whitespace character at the end
PadRight ==
    /\ category = <<>>
    /\ Len(variantText) < Len(inputText) + MaxPad
    /\ \E w \in PadChars : variantText' = Append(variantText, w)
    /\ UNCHANGED <<inputText, category, variantCategory, apiVars, appVars>>

\* the variant loses a whitespace character in front
StripLeft ==
    /\ category = <<>>
    /\ variantText # <<>> /\ Head(variantText) \in WhiteSpace
    /\ variantText' = Tail(variantText)
    /\ UNCHANGED <<inputText, category, variantCategory, apiVars, appVars>>

\* the variant loses a whitespace character at the end
StripRight ==
    /\ category = <<>>
    /\ variantText # <<>> /\ variantText[Len(variantText)] \in WhiteSpace
    /\ variantText' = SubSeq(variantText, 1, Len(variantText) - 1)
    /\ UNCHANGED <<inputText, category, variantCategory, apiVars, appVars>>

\* both texts are classified
Classify ==
    /\ category = <<>>
    /\ category' = <<analyzeTextStandard(inputText)>>
    /\ variantCategory' = <<analyzeTextStandard(variantText)>>
    /\ UNCHANGED <<inputText, variantText, apiVars, appVars>>

NextStandard ==
    \/ ChangeCase
    \/ PadLeft
    \/ PadRight
    \/ StripLeft
    \/ StripRight
    \/ Classify

SpecStandard == InitStandard /\ [][NextStandard]_vars

----------------------------------------------------------------------------
(* Claims about analyzeTextStandard *)

\* the text the keywords are looked up in
normalised(t) == toLowerCase(trim(t))

\* entry i of the dictionary has a keyword occurring in t
ruleMatches(i, t) ==
    \E j \in 1..Len(dictionary[i].keys) : includes(t, dictionary[i].keys[j])

sameCategory(a, b) == a.label = b.label /\ a.text = b.text /\ a.icon = b.icon

\* C1: the category returned is that of the first entry, in declaration
\* order, one of whose keywords occurs in the trimmed, lower-cased input,
\* whatever later entries match too; "クレーム対応" gives entry 1 and
\* "進行管理" gives the scheduling entry 5.
C1_OrderingPrecedence ==
    category # <<>> =>
        /\ \A i \in 1..Len(dictionary) :
              ( /\ ruleMatches(i, normalised(inputText))
                /\ \A j \in 1..(i - 1) : ~ruleMatches(j, normalised(inputText)) )
              => sameCategory(category[1], dictionary[i])
        /\ inputText = ExClaim =>
              category[1].label = "U30AFU30E9U30A4U30B7U30B9U30DEU30CDU30B8U30E1U30F3U30C8"
        /\ inputText = ExProgress => category[1].icon = "Layers"

\* an input with keywords of entry 1 and of entry 2 has been classified
C1_Witness ==
    /\ category # <<>>
    /\ inputText = ExClaim
    /\ ruleMatches(1, normalised(inputText))
    /\ ruleMatches(2, normalised(inputText))
    /\ category[1].icon = "AlertTriangle"

\* C2: an input in which no keyword occurs, the empty and the
\* whitespace-only ones included, gets the fallback category, and no input
\* at all gets a result with isError true.
C2_Fallback ==
    category # <<>> =>
        /\ ( \A i \in 1..Len(dictionary) : ~ruleMatches(i, normalised(inputText)) )
              => category[1] = fallbackCategory
        /\ isErrorOf(category[1]) # True

\* a whitespace-only input has been classified
C2_Witness ==
    /\ category # <<>>
    /\ inputText # <<>>
    /\ \A i \in 1..Len(inputText) : inputText[i] \in WhiteSpace
    /\ category[1].icon = "Briefcase"

\* C3: two inputs that differ only in letter case and in leading or
\* trailing whitespace get the same label, description and icon.
C3_NormalisationInvariance ==
    category # <<>> => sameCategory(category[1], variantCategory[1])

\* a keyword input and a variant of other case and other outer whitespace
C3_Witness ==
    /\ category # <<>>
    /\ Len(variantText) # Len(inputText)
    /\ \E i \in 1..Len(inputText) : isCased(inputText[i]) /\ ~includes(variantText, <<inputText[i]>>)
    /\ category[1].icon # "Briefcase"

----------------------------------------------------------------------------
(* Specification SpecRemote: callGeminiAPI applied to a text under every   *)
(* behaviour of fetch and response.json() of the model.                    *)

NullData == [kind |-> "null", error |-> NoError, candidates |-> <<>>]
PrimitiveData == [kind |-> "primitive", error |-> NoError, candidates |-> <<>>]
ObjectData(error, candidates) ==
    [kind |-> "object", error |-> error, candidates |-> candidates]

RejectReply(m) ==
    [fetch |-> "reject", message |-> m, status |-> 0, body |-> "none", data |-> NullData]
Response(status, body, m, data) ==
    [fetch |-> "response", message |-> m, status |-> status, body |-> body, data |-> data]

\* candidates: [{content: {parts: [{text: c}]}}]
withText(c) == << << [content |-> << [parts |-> << << [text |-> c] >> >>] >>] >> >>

\* the shapes in which the path to the text ends early: no candidates, [],
\* [{}], [{content: {}}], [{content: {parts: []}}], [{content: {parts: [{}]}}]
BrokenPaths ==
    { <<>>,
      << <<>> >>,
      << << [content |-> <<>>] >> >>,
      << << [content |-> << [parts |-> <<>>] >>] >> >>,
      << << [content |-> << [parts |-> << <<>> >>] >>] >> >>,
      withText(NoContent) }

WellFormed(k) == jsonText(JsonObject(Str("X"), Str("Y"), k))

CoreToks == {Fence, "json", "\n", "Sure", WellFormed(Str("Users")), "{}", "null"}

ExampleContents ==
    { <<jsonText(v)>> : v \in JsonValues }
    \cup { <<Fence, "json", "\n", WellFormed(Str("Layers")), "\n", Fence>>,
           <<Fence, "JSON", "\n", WellFormed(Str("Layers")), "\n", Fence>>,
           <<Fence, Fence, "json", "json", WellFormed(Str("Zap"))>> }

Contents ==
    {NumContent, StrContent(<<>>)}
    \cup { StrContent(t) : t \in UNION {[1..m -> CoreToks] : m \in 1..MaxToks} }
    \cup { StrContent(t) : t \in ExampleContents }

ErrorFields == { ErrorObject(Str("API key not valid")), ErrorObject(Str("")),
                 ErrorObject(Undefined),
                 [kind |-> "string", message |-> Undefined] }

Datas ==
    {NullData, PrimitiveData}
    \cup { ObjectData(NoError, c) : c \in BrokenPaths }
    \cup { ObjectData(NoError, withText(c)) : c \in Contents }
    \cup { ObjectData(e, c) : e \in ErrorFields,
                              c \in {<<>>, withText(StrContent(<<WellFormed(Str("Users"))>>))} }

HttpStatuses == {200, 403, 500}

Replies ==
    { RejectReply(m) : m \in {"Failed to fetch", "NetworkError when attempting to fetch resource."} }
    \cup { Response(st, "unreadable", "body stream already read", NullData) : st \in HttpStatuses }
    \cup { Response(st, "notjson", "", NullData) : st \in HttpStatuses }
    \cup { Response(st, "json", "", d) : st \in HttpStatuses, d \in Datas }

ApiTexts == {ExClaim, <<"A">>}

InitStd ==
    /\ inputText = <<>>
    /\ variantText = <<>>
    /\ category = <<>>
    /\ variantCategory = <<>>

InitRemote ==
    /\ apiText \in ApiTexts
    /\ apiReply \in { <<r>> : r \in Replies }
    /\ apiOutcome = <<>>
    /\ InitStd
    /\ InitApp

\* the call and everything up to the settling of its promise
CallGeminiAPI ==
    /\ apiOutcome = <<>>
    /\ apiReply # <<>>
    /\ apiOutcome' = <<callGeminiAPI(apiText, "key", apiReply[1])>>
    /\ UNCHANGED <<apiText, apiReply, stdVars, appVars>>

NextRemote == CallGeminiAPI

SpecRemote == InitRemote /\ [][NextRemote]_vars

----------------------------------------------------------------------------
(* Claims about callGeminiAPI *)

\* the reply text is a non-empty string
hasText(reply) ==
    /\ reply.fetch = "response" /\ reply.body = "json"
    /\ reply.data.kind # "null" /\ reply.data.error.kind = "undefined"
    /\ contentOf(reply.data).kind = "string" /\ contentOf(reply.data).toks # <<>>

\* the network call fails, the body cannot be read, or the reply does not parse
injectedFailure(reply) ==
    \/ reply.fetch = "reject"
    \/ reply.fetch = "response" /\ reply.body \in {"unreadable", "notjson"}
    \/ hasText(reply) /\ ~JSONparse(cleanJsonOf(contentOf(reply.data))).ok

\* C4: callGeminiAPI never rejects; for every failure of the network call, of
\* reading the body or of parsing the reply it resolves to a result with
\* isError true, label "API Error", a description that embeds the non-empty
\* reason, and an exchange record with prompt, input and response populated.
C4_NeverThrows ==
    apiOutcome # <<>> =>
        /\ apiOutcome[1].state = "fulfilled"
        /\ injectedFailure(apiReply[1]) =>
              LET r == apiOutcome[1].value.result
                  l == apiOutcome[1].value.log
              IN  /\ r.isError = True
                  /\ r.label = Str("API Error")
                  /\ \E m \in {"Failed to fetch", "NetworkError when attempting to fetch resource.",
                               "body stream already read",
                               "Unexpected token < in JSON at position 0",
                               "Unexpected token in JSON"} :
                        /\ r.text = Str(ErrorPrefix \o m)
                        /\ l.response = "\"" \o m \o "\""
                        /\ apiReply[1].fetch = "reject" => m = apiReply[1].message
                  /\ l.prompt # "" /\ l.input = apiText /\ l.input # <<>>

\* a reply whose text is not JSON has been turned into an error result
C4_Witness ==
    /\ apiOutcome # <<>>
    /\ hasText(apiReply[1])
    /\ ~JSONparse(cleanJsonOf(contentOf(apiReply[1].data))).ok
    /\ apiOutcome[1].value.result.icon = "XCircle"

\* C5: a reply with a status outside 200..299 gives, whatever its body, a
\* result with isError true and label "API Error".
C5_Non2xxIsFailure ==
    ( /\ apiOutcome # <<>>
      /\ apiReply[1].fetch = "response"
      /\ apiReply[1].status \notin 200..299 )
    => /\ apiOutcome[1].value.result.isError = True
       /\ apiOutcome[1].value.result.label = Str("API Error")

\* C9: a well-formed reply {label: X, text: Y, iconKey: K} gives label X,
\* description Y, no isError, and the icon named K when K is a key of the
\* icon table, the default icon Briefcase for any other or absent K.
C9_IconMapping ==
    ( /\ apiOutcome # <<>>
      /\ hasText(apiReply[1])
      /\ \E k \in IconKeyValues :
            cleanJsonOf(contentOf(apiReply[1].data)) = WellFormed(k) )
    => LET k == CHOOSE k \in IconKeyValues :
                    cleanJsonOf(contentOf(apiReply[1].data)) = WellFormed(k)
           r == apiOutcome[1].value.result
       IN  /\ r.label = Str("X") /\ r.text = Str("Y")
           /\ r.isError = Undefined
           /\ r.icon = IF k.kind = "string" /\ k.s \in ICON_MAP THEN k.s ELSE "Briefcase"

\* C10: a result that is no error comes only from a reply with a non-empty
\* text at candidates[0].content.parts[0].text that parses, fences stripped,
\* to a JSON object with the fields label and text.
C10_AbsentFieldsFail ==
    ( apiOutcome # <<>> /\ apiOutcome[1].value.result.isError # True )
    => /\ hasText(apiReply[1])
       /\ LET p == JSONparse(cleanJsonOf(contentOf(apiReply[1].data)))
          IN  /\ p.ok
              /\ p.value.kind = "object"
              /\ p.value.label.kind = "string"
              /\ p.value.text.kind = "string"

----------------------------------------------------------------------------
(* Specification Spec: the App component.  A handler runs to completion;   *)
(* between handlers a pending fetch or body read of any request may        *)
(* settle.                                                                 *)

\* the values typed into the key field and the task field
KeyValues == {"", "AIza-1"}
InputValues == { <<>>, <<" ">>, <<"U6012">>, <<" ", "A">> }

\* a reply whose text is wrapped in a code fence, with newlines around the JSON
FencedReply ==
    Response(200, "json", "",
             ObjectData(NoError, withText(StrContent(
                 <<Fence, "json", "\n", WellFormed(Str("Layers")), "\n", Fence>>))))

\* what the service may do to a request of a batch
SessionReplies ==
    { RejectReply("Failed to fetch"),
      Response(200, "json", "", ObjectData(NoError, withText(StrContent(<<WellFormed(Str("Users"))>>)))),
      Response(500, "notjson", "", NullData),
      FencedReply }

\* useState defaults, then the mount effect: a truthy saved key becomes apiKey
Init ==
    /\ step = 0
    /\ mode = "standard"
    /\ sessionStorage \in { <<>>, <<"">>, <<"AIza-1">> }
    /\ apiKey = IF sessionStorage # <<>> /\ sessionStorage[1] # "" THEN sessionStorage[1] ELSE ""
    /\ inputs = <<>>
    /\ currentInput = <<>>
    /\ aiResults = <<>>
    /\ debugLogs = <<>>
    /\ isProcessing = FALSE
    /\ showDebug = FALSE
    /\ batch = <<>>
    /\ requests = <<>>
    /\ settleOrder = <<>>
    /\ fetchCount = <<>>
    /\ InitStd
    /\ InitApi

asyncVars == <<batch, requests, settleOrder, fetchCount>>

\* onClick of the Standard button
SetModeStandard ==
    /\ step = 0
    /\ mode' = "standard"
    /\ UNCHANGED <<step, apiKey, inputs, currentInput, aiResults, debugLogs, isProcessing,
                   showDebug, sessionStorage, asyncVars, stdVars, apiVars>>

\* onClick of the AI Mode button
SetModeAi ==
    /\ step = 0
    /\ mode' = "ai"
    /\ UNCHANGED <<step, apiKey, inputs, currentInput, aiResults, debugLogs, isProcessing,
                   showDebug, sessionStorage, asyncVars, stdVars, apiVars>>

\* onChange of the key field, which the AI panel of step 0 shows
saveApiKey ==
    /\ step = 0 /\ mode = "ai"
    /\ \E key \in KeyValues :
          /\ key # apiKey
          /\ apiKey' = key
          /\ sessionStorage' = <<key>>
    /\ UNCHANGED <<step, mode, inputs, currentInput, aiResults, debugLogs, isProcessing,
                   showDebug, asyncVars, stdVars, apiVars>>

\* the trash button, rendered while apiKey is truthy
clearApiKey ==
    /\ step = 0 /\ mode = "ai"
    /\ apiKey # ""
    /\ apiKey' = ""
    /\ sessionStorage' = <<>>
    /\ UNCHANGED <<step, mode, inputs, currentInput, aiResults, debugLogs, isProcessing,
                   showDebug, asyncVars, stdVars, apiVars>>

\* the start button without its disabled attribute
StartAlwaysEnabled ==
    /\ step = 0
    /\ step' = 1
    /\ UNCHANGED <<mode, apiKey, inputs, currentInput, aiResults, debugLogs, isProcessing,
                   showDebug, sessionStorage, asyncVars, stdVars, apiVars>>

\* the start button, disabled when mode === "ai" && !apiKey
Start ==
    /\ step = 0
    /\ ~(mode = "ai" /\ apiKey = "")
    /\ step' = 1
    /\ UNCHANGED <<mode, apiKey, inputs, currentInput, aiResults, debugLogs, isProcessing,
                   showDebug, sessionStorage, asyncVars, stdVars, apiVars>>

\* onChange of the task field
SetCurrentInput ==
    /\ step = 1
    /\ \E v \in InputValues : v # currentInput /\ currentInput' = v
    /\ UNCHANGED <<step, mode, apiKey, inputs, aiResults, debugLogs, isProcessing,
                   showDebug, sessionStorage, asyncVars, stdVars, apiVars>>

\* the check button or Enter; returns early on a blank currentInput
addInput ==
    /\ step = 1
    /\ trim(currentInput) # <<>>
    /\ Len(inputs) < MaxInputs
    /\ inputs' = Append(inputs, currentInput)
    /\ currentInput' = <<>>
    /\ UNCHANGED <<step, mode, apiKey, aiResults, debugLogs, isProcessing,
                   showDebug, sessionStorage, asyncVars, stdVars, apiVars>>

\* one promise of the array promises
NewRequest(text, key) ==
    [request |-> requestOf(text, key), phase |-> "fetch", reply |-> <<>>, settled |-> <<>>]

\* a combinator that resolves with what has settled so far, on the first settling
PromiseAny(reqs, order) ==
    IF order = <<>> THEN <<>>
    ELSE << [k \in 1..Len(order) |-> reqs[order[k]].settled[1].value] >>

\* a combinator whose values come in the order of settling
PromiseAllByCompletion(reqs, order) ==
    IF \A i \in 1..Len(reqs) :
          reqs[i].phase = "done" /\ reqs[i].settled[1].state = "fulfilled"
    THEN << [k \in 1..Len(order) |-> reqs[order[k]].settled[1].value] >>
    ELSE <<>>

\* Promise.all(promises) once it resolves: <<the values, by index>>; <<>> as
\* long as a promise is pending, and for good once one is rejected
PromiseAll(reqs, order) ==
    IF \A i \in 1..Len(reqs) :
          reqs[i].phase = "done" /\ reqs[i].settled[1].state = "fulfilled"
    THEN << [i \in 1..Len(reqs) |-> reqs[i].settled[1].value] >>
    ELSE <<>>

\* a translate button that is not disabled while a batch is in flight
processTranslationWhileBusy ==
    /\ step = 1
    /\ Len(inputs) >= 1
    /\ debugLogs' = <<>>
    /\ batch' = <<[inputs |-> inputs, apiKey |-> apiKey, mode |-> mode]>>
    /\ settleOrder' = <<>>
    /\ IF mode = "standard"
       THEN /\ aiResults' = [i \in 1..Len(inputs) |-> analyzeTextStandard(inputs[i])]
            /\ step' = 2
            /\ isProcessing' = FALSE
            /\ requests' = <<>>
            /\ fetchCount' = <<>>
       ELSE /\ isProcessing' = TRUE
            /\ requests' = [i \in 1..Len(inputs) |-> NewRequest(inputs[i], apiKey)]
            /\ fetchCount' = [i \in 1..Len(inputs) |-> 1]
            /\ UNCHANGED <<aiResults, step>>
    /\ UNCHANGED <<mode, apiKey, inputs, currentInput, showDebug, sessionStorage,
                   stdVars, apiVars>>

\* the translate button, rendered for a non-empty queue and disabled while
\* isProcessing: lines 165-172, and in standard mode also lines 178-179
processTranslation ==
    /\ step = 1
    /\ Len(inputs) >= 1
    /\ ~isProcessing
    /\ debugLogs' = <<>>
    /\ batch' = <<[inputs |-> inputs, apiKey |-> apiKey, mode |-> mode]>>
    /\ settleOrder' = <<>>
    /\ IF mode = "standard"
       THEN /\ aiResults' = [i \in 1..Len(inputs) |-> analyzeTextStandard(inputs[i])]
            /\ step' = 2
            /\ isProcessing' = FALSE
            /\ requests' = <<>>
            /\ fetchCount' = <<>>
       ELSE /\ isProcessing' = TRUE
            /\ requests' = [i \in 1..Len(inputs) |-> NewRequest(inputs[i], apiKey)]
            /\ fetchCount' = [i \in 1..Len(inputs) |-> 1]
            /\ UNCHANGED <<aiResults, step>>
    /\ UNCHANGED <<mode, apiKey, inputs, currentInput, showDebug, sessionStorage,
                   stdVars, apiVars>>

\* the promise of request i settles; when that resolves Promise.all, lines
\* 174-179 run before any other handler
Settle(i, reply) ==
    LET outcome == callGeminiAPI(requests[i].request.body.contents,
                                 requests[i].request.url.key, reply)
        reqs == [requests EXCEPT ![i] = [@ EXCEPT !.phase = "done",
                                                  !.reply = <<reply>>,
                                                  !.settled = <<outcome>>]]
        order == Append(settleOrder, i)
        rawResults == PromiseAll(reqs, order)
    IN  /\ requests' = reqs
        /\ settleOrder' = order
        /\ IF rawResults # <<>> /\ isProcessing
           THEN /\ aiResults' = [k \in 1..Len(rawResults[1]) |-> rawResults[1][k].result]
                /\ debugLogs' = [k \in 1..Len(rawResults[1]) |-> rawResults[1][k].log]
                /\ step' = 2
                /\ isProcessing' = FALSE
           ELSE UNCHANGED <<aiResults, debugLogs, step, isProcessing>>
        /\ UNCHANGED <<mode, apiKey, inputs, currentInput, showDebug, sessionStorage,
                       batch, fetchCount, stdVars, apiVars>>

\* fetch of request i settles: rejected, or fulfilled with a response whose
\* body is then read
FetchSettles ==
    \E i \in 1..Len(requests) : \E reply \in SessionReplies :
        /\ requests[i].phase = "fetch"
        /\ IF reply.fetch = "reject"
           THEN Settle(i, reply)
           ELSE /\ requests' = [requests EXCEPT ![i] = [@ EXCEPT !.phase = "json",
                                                                 !.reply = <<reply>>]]
                /\ UNCHANGED <<step, mode, apiKey, inputs, currentInput, aiResults,
                               debugLogs, isProcessing, showDebug, sessionStorage,
                               batch, settleOrder, fetchCount, stdVars, apiVars>>

\* response.json() of request i settles
JsonSettles ==
    \E i \in 1..Len(requests) :
        /\ requests[i].phase = "json"
        /\ Settle(i, requests[i].reply[1])

\* a start-over that clears the queue but not the results and records
ResetKeepsResults ==
    /\ step = 2
    /\ inputs' = <<>>
    /\ step' = 0
    /\ batch' = <<>>
    /\ requests' = <<>>
    /\ settleOrder' = <<>>
    /\ fetchCount' = <<>>
    /\ UNCHANGED <<mode, apiKey, currentInput, isProcessing, showDebug, sessionStorage,
                   aiResults, debugLogs, stdVars, apiVars>>

\* the start-over button of the result view
Reset ==
    /\ step = 2
    /\ inputs' = <<>>
    /\ step' = 0
    /\ aiResults' = <<>>
    /\ debugLogs' = <<>>
    \* the promises of the finished batch are garbage from here on
    /\ batch' = <<>>
    /\ requests' = <<>>
    /\ settleOrder' = <<>>
    /\ fetchCount' = <<>>
    /\ UNCHANGED <<mode, apiKey, currentInput, isProcessing, showDebug, sessionStorage,
                   stdVars, apiVars>>

\* the button over the log panel, rendered in AI mode when there are logs
ToggleDebug ==
    /\ step = 2 /\ mode = "ai" /\ Len(debugLogs) > 0
    /\ showDebug' = ~showDebug
    /\ UNCHANGED <<step, mode, apiKey, inputs, currentInput, aiResults, debugLogs,
                   isProcessing, sessionStorage, asyncVars, stdVars, apiVars>>

Next ==
    \/ SetModeStandard
    \/ SetModeAi
    \/ saveApiKey
    \/ clearApiKey
    \/ Start
    \/ SetCurrentInput
    \/ addInput
    \/ processTranslation
    \/ FetchSettles
    \/ JsonSettles
    \/ Reset
    \/ ToggleDebug

Spec == Init /\ [][Next]_vars

----------------------------------------------------------------------------
(* Claims about processTranslation in AI mode *)

allSettled == requests # <<>> /\ \A i \in 1..Len(requests) : requests[i].phase = "done"

\* C6: after a batch in AI mode the result and the exchange record at index
\* i are the ones the request issued for input i produced, in whatever order
\* the requests settled.
C6_BatchOrderInvariance ==
    ( step = 2 /\ batch # <<>> /\ batch[1].mode = "ai" ) =>
        /\ Len(aiResults) = Len(batch[1].inputs)
        /\ Len(debugLogs) = Len(batch[1].inputs)
        /\ \A i \in 1..Len(batch[1].inputs) :
              /\ requests[i].request.body.contents = batch[1].inputs[i]
              /\ aiResults[i] = requests[i].settled[1].value.result
              /\ debugLogs[i] = requests[i].settled[1].value.log
              /\ debugLogs[i].input = batch[1].inputs[i]

\* request 2 settled before request 1, with another result
C6_Witness ==
    /\ step = 2 /\ batch # <<>> /\ batch[1].mode = "ai"
    /\ settleOrder = <<2, 1>>
    /\ batch[1].inputs[1] # batch[1].inputs[2]
    /\ aiResults[1].isError # aiResults[2].isError

\* C7: a failed request neither aborts the batch nor touches another slot:
\* once all requests of a batch have settled there is one result per
\* submitted input, an error or a success according to the reply to that
\* very request, and fetch has been called once per input.
C7_PerSlotIndependence ==
    /\ \A i \in 1..Len(fetchCount) : fetchCount[i] = 1
    /\ allSettled =>
          /\ step = 2 /\ ~isProcessing
          /\ Len(aiResults) = Len(batch[1].inputs)
          /\ Len(fetchCount) = Len(batch[1].inputs)
          /\ \A i \in 1..Len(batch[1].inputs) :
                /\ aiResults[i].isError \in {True, Undefined}
                /\ aiResults[i] = callGeminiAPI(batch[1].inputs[i], batch[1].apiKey,
                                                requests[i].reply[1]).value.result
                /\ aiResults[i].isError = True <=> tryBlock(requests[i].reply[1]).threw

\* a batch ended with an error in one slot and a success in another
C7_Witness ==
    /\ step = 2 /\ allSettled
    /\ \E i, j \in 1..Len(aiResults) :
          /\ aiResults[i].isError = True /\ requests[i].reply[1].fetch = "response"
          /\ aiResults[j].isError = Undefined

\* C8: the requests for all inputs of the batch are issued before any has
\* settled, and while a request of the batch is unsettled the session stays
\* at step 1 and stores neither a result nor an exchange record.
C8_JoinAll ==
    /\ requests # <<>> =>
          /\ Len(requests) = Len(batch[1].inputs)
          /\ Len(fetchCount) = Len(batch[1].inputs)
    /\ ( \E i \in 1..Len(requests) : requests[i].phase # "done" ) =>
          /\ step = 1
          /\ isProcessing
          /\ aiResults = <<>>
          /\ debugLogs = <<>>

\* one request has settled while another has not
C8_Witness ==
    /\ \E i, j \in 1..Len(requests) :
          requests[i].phase = "done" /\ requests[j].phase = "fetch"
    /\ step = 1 /\ isProcessing

----------------------------------------------------------------------------
(* Claims about the exchange records and the session *)

\* the messages an Error caught by callGeminiAPI carries in the session
SessionMessages == {"Failed to fetch", "Unexpected token < in JSON at position 0",
                    "Unexpected token in JSON"}

\* C11: every settled call carries an exchange record: its prompt is
\* SYSTEM_PROMPT, its input the text passed in, its response the cleaned
\* (fences stripped, trimmed) text that was parsed, or on failure the
\* stringified reason; the stored records are as many as the stored results
\* and aligned with them by index.
C11_ExchangeRecord ==
    /\ \A i \in 1..Len(requests) :
          requests[i].phase = "done" =>
             LET v == requests[i].settled[1].value
                 reply == requests[i].reply[1]
             IN  /\ v.log.prompt = SYSTEM_PROMPT
                 /\ v.log.input = batch[1].inputs[i]
                 /\ v.result.isError = Undefined =>
                       /\ v.log.response = cleanJsonOf(contentOf(reply.data))
                       /\ JSONparse(v.log.response).ok
                       /\ JSONparse(v.log.response).value.label = v.result.label
                       /\ reply = FencedReply => v.log.response = WellFormed(Str("Layers"))
                 /\ v.result.isError = True =>
                       \E m \in SessionMessages :
                          /\ v.result.text = Str(ErrorPrefix \o m)
                          /\ v.log.response = "\"" \o m \o "\""
    /\ ( step = 2 /\ batch # <<>> /\ batch[1].mode = "ai" ) =>
          /\ Len(debugLogs) = Len(aiResults)
          /\ \A i \in 1..Len(aiResults) :
                /\ debugLogs[i] = requests[i].settled[1].value.log
                /\ aiResults[i] = requests[i].settled[1].value.result

\* a batch stored the record of a fenced reply next to that of a failure
C11_Witness ==
    /\ step = 2 /\ batch # <<>> /\ batch[1].mode = "ai"
    /\ \E i, j \in 1..Len(debugLogs) :
          /\ requests[i].reply[1] = FencedReply
          /\ debugLogs[i].response = WellFormed(Str("Layers"))
          /\ aiResults[j].isError = True
          /\ debugLogs[j].response = "\"Failed to fetch\""

C13_Reset ==
    /\ [][ ( step = 2 /\ step' # 2 ) =>
              /\ step' = 0
              /\ inputs' = <<>> /\ aiResults' = <<>> /\ debugLogs' = <<>>
              /\ mode' = mode /\ apiKey' = apiKey /\ sessionStorage' = sessionStorage ]_vars
    /\ [] ( /\ step = 0 => ( inputs = <<>> /\ aiResults = <<>> /\ debugLogs = <<>> )
            /\ step = 1 => ( aiResults = <<>> /\ debugLogs = <<>> )
            /\ step = 2 =>
                  /\ batch # <<>>
                  /\ Len(aiResults) = Len(batch[1].inputs)
                  /\ batch[1].inputs = SubSeq(inputs, 1, Len(batch[1].inputs))
                  /\ batch[1].mode = mode
                  /\ \A i \in 1..Len(debugLogs) : debugLogs[i].input = inputs[i] )

\* back at step 0 in AI mode after a batch, the key and the typed text kept
C13_Witness ==
    /\ step = 0 /\ mode = "ai" /\ apiKey # "" /\ sessionStorage = <<apiKey>>
    /\ currentInput # <<>>
    /\ inputs = <<>> /\ aiResults = <<>> /\ debugLogs = <<>>

\* C14: at step 2 there are as many results as queued inputs and result i was
\* computed from the input now at index i of the queue, in both modes and
\* also when addInput ran while a batch was in flight.
C14_ResultQueueAlignment ==
    step = 2 =>
        /\ Len(aiResults) = Len(inputs)
        /\ \A i \in 1..Len(aiResults) :
              IF mode = "standard"
              THEN aiResults[i] = analyzeTextStandard(inputs[i])
              ELSE aiResults[i] = callGeminiAPI(inputs[i], apiKey,
                                                requests[i].reply[1]).value.result

----------------------------------------------------------------------------
(* The session when every request that has been issued settles *)

\* some response body is being read: the states in which JsonSettles is enabled
JsonPending == \E i \in 1..Len(requests) : requests[i].phase = "json"

\* fetch and response.json() are the only awaits of a batch; the premise that
\* every issued request settles is weak fairness of their two settle steps.
\* WF_vars(JsonSettles) is written out, with JsonPending for its ENABLED.
SpecFair ==
    /\ Spec
    /\ WF_vars(FetchSettles)
    /\ ( []<>~JsonPending \/ []<><<JsonSettles>>_vars )

\* C15: while isProcessing is set no further batch is started; with every
\* issued request settling, a started batch leads to step 2 with the flag
\* cleared; a standard batch gets there in the handler itself, without a
\* request; and the flag is cleared by nothing but the last settle, so with
\* a request pending the session stays at step 1 with the flag set.
C15_BatchCompletion ==
    /\ [][ isProcessing => ( batch' = batch /\ fetchCount' = fetchCount
                             /\ Len(requests') = Len(requests) ) ]_vars
    /\ [] ( isProcessing =>
               /\ step = 1 /\ batch # <<>> /\ batch[1].mode = "ai"
               /\ \E i \in 1..Len(requests) : requests[i].phase # "done" )
    /\ [] ( ( batch # <<>> /\ batch[1].mode = "standard" ) =>
               /\ step = 2 /\ ~isProcessing
               /\ requests = <<>> /\ fetchCount = <<>>
               /\ Len(aiResults) = Len(batch[1].inputs) )
    /\ [][ ( isProcessing /\ ~isProcessing' ) => ( step' = 2 /\ allSettled' ) ]_vars
    /\ [] ( ( batch # <<>> /\ step = 1 ) => isProcessing )
    /\ ( batch # <<>> ) ~> ( step = 2 /\ ~isProcessing )

\* a batch of two requests, one rejected by fetch and one read to the end,
\* has completed
C15_Witness ==
    /\ step = 2 /\ ~isProcessing /\ allSettled
    /\ Len(requests) = 2
    /\ \E i, j \in 1..2 : /\ requests[i].reply[1].fetch = "reject"
                          /\ requests[j].reply[1].fetch # "reject"


====
